---- MODULE Spec2Model ----
(***************************************************************************)
(* Retail analytics for Azure Cosmos DB: the uploader script               *)
(* (src/Data_Uploading.py) and the Streamlit dashboard                     *)
(* (src/dashboard_retail.py), both run against one document store.         *)
(*                                                                         *)
(* The store is modelled by the number of documents each of the four       *)
(* collections holds.  The two scripts are separate operating-system       *)
(* processes; a behaviour of Spec follows one run of one of them (proc).   *)
(* Every call to the store may raise.  A run follows one of the FaultPlans: *)
(* up to MaxFaults errors other than rate limits; rate-limit errors, any   *)
(* number of them, in up to MaxThrottledBatches batches; or one batch with *)
(* rate-limit errors and up to MaxMixedFaults other errors.  A bulk write  *)
(* or single insert that raises a rate-limit or another non-bulk error is  *)
(* taken to have inserted nothing, and a delete that raises to have        *)
(* deleted nothing.                                                        *)
(* Time is counted in ticks, TicksPerHalfSecond of them in 0.5 s.          *)
(***************************************************************************)
EXTENDS Integers, Sequences, FiniteSets, TLC

----------------------------------------------------------------------------
(* Bounds of the model *)

MaxFaults == 2

MaxThrottledBatches == 2

MaxMixedFaults == 1

TicksPerHalfSecond == 2

MaxItems == 2

----------------------------------------------------------------------------
(* Constants of src/Data_Uploading.py *)

MIN_DOCS_PER_COLLECTION == 50

BATCH_SIZE == 5

BATCH_DELAY == 2

max_retries == 5

batch_size == 10

clear_batch_size == 20

MinProducts == 25

MinCustomers == 25

MinOrders == 30

MinReviews == 25

COLLECTIONS == <<"products", "customers", "orders", "reviews">>

NumCollections == Len(COLLECTIONS)

CollectionNames == {COLLECTIONS[k] : k \in 1..NumCollections}

Max(a, b) == IF a >= b THEN a ELSE b

Min(a, b) == IF a <= b THEN a ELSE b

RECURSIVE Pow2(_)
Pow2(k) == IF k = 0 THEN 1 ELSE 2 * Pow2(k - 1)

(* len(products), len(customers), len(orders), len(reviews): every order has
   at least one item, so generate_reviews yields one review per index. *)
GeneratedCount(c) ==
    CASE c = "products"  -> Max(MIN_DOCS_PER_COLLECTION, MinProducts)
      [] c = "customers" -> Max(MIN_DOCS_PER_COLLECTION, MinCustomers)
      [] c = "orders"    -> Max(MIN_DOCS_PER_COLLECTION, MinOrders)
      [] c = "reviews"   -> Max(MIN_DOCS_PER_COLLECTION, MinReviews)

(* The stores either script may start from: every collection holds no
   document, one document or MIN_DOCS_PER_COLLECTION documents, all alike or
   in one of the three rotations of the three counts. *)
Db(p, c, o, r) ==
    [k \in CollectionNames |->
        CASE k = "products"  -> p
          [] k = "customers" -> c
          [] k = "orders"    -> o
          [] k = "reviews"   -> r]

InitialDbs ==
    LET m == MIN_DOCS_PER_COLLECTION
    IN  {Db(0, 0, 0, 0), Db(1, 1, 1, 1), Db(m, m, m, m),
         Db(m, 0, 1, m), Db(0, 1, m, 0), Db(1, m, 0, 1)}

(* A budget of store errors: a number of errors still to come, or
   Unlimited.  CanFail: an error may come now; Spent: the budget after
   it. *)
Unlimited == -1

CanFail(budget) == budget # 0

Spent(budget) == IF budget = Unlimited THEN budget ELSE budget - 1

(* <<errors other than rate limits, batches meeting rate limits>> *)
FaultPlans ==
    {<<MaxFaults, 0>>, <<0, MaxThrottledBatches>>, <<MaxMixedFaults, 1>>}

(* The source's setting of FORCE_UPLOAD and RESET_DATABASE (both False), and
   each flag set on its own: <<force, reset>>. *)
Configs == {<<FALSE, FALSE>>, <<TRUE, FALSE>>, <<FALSE, TRUE>>}

ConnStrings == {"unset", "empty", "set"}

(* `if COSMOS_CONNECTION_STRING is None` in place of `not ...`. *)
MissingOnlyIfUnset(str) == str = "unset"

(* `not COSMOS_CONNECTION_STRING`: None and '' are both falsy. *)
MissingConnString(s) == s = "unset" \/ s = "empty"

(* Seconds and half seconds in ticks. *)
Seconds(n) == n * 2 * TicksPerHalfSecond

HalfSeconds(n) == n * TicksPerHalfSecond

(* random.random() * 0.5 lies in [0, 0.5). *)
Jitters == 0..(TicksPerHalfSecond - 1)

(* A delay that grows by BATCH_DELAY per attempt. *)
BackoffLinear(att, jit) == (att + 1) * Seconds(BATCH_DELAY) + jit

(* backoff = (2 ** attempt) * BATCH_DELAY + random.random() * 0.5 *)
Backoff(att, jit) == Pow2(att) * Seconds(BATCH_DELAY) + jit

(* batch = data[i:i + batch_size] *)
BatchLen(total, start) == Min(batch_size, total - start)

(* nInserted values a BulkWriteError of a batch of len documents reports in
   the model: none, one, all but one (at least one write failed). *)
PartialCounts(len) == {n \in {0, 1, len - 1} : n >= 0 /\ n < len}

(* `count <= MIN_DOCS_PER_COLLECTION` in place of `<`. *)
ShouldUploadAtThreshold(force, count) ==
    force \/ count <= MIN_DOCS_PER_COLLECTION

(* `if FORCE_UPLOAD or count < MIN_DOCS_PER_COLLECTION` *)
ShouldUpload(force, count) == force \/ count < MIN_DOCS_PER_COLLECTION

(* `break` in the handler of the delete error. *)
ClearGivesUp(ok) == IF ok THEN "clear_find" ELSE "batch"

(* clear_collection_safely: after the delete_many and its sleep, with or
   without an error, `while True` scans again. *)
ClearAfterDelete(ok) == "clear_find"

(* `if count > 0` without `and FORCE_UPLOAD`. *)
ShouldClearNonEmpty(force, count) == count > 0

(* `if count > 0 and FORCE_UPLOAD` *)
ShouldClear(force, count) == count > 0 /\ force

(* The loop stops at the first page that is not full. *)
ClearDoneAtShortPage(n) == n < clear_batch_size

(* clear_collection_safely: `if not docs: break` on a scan of n documents *)
ClearDone(n) == n = 0

(* `if attempt >= max_retries` in place of `>`. *)
RetriesExhaustedEarly(att) == att >= max_retries

(* `if attempt > max_retries:` ... `break` *)
RetriesExhausted(att) == att > max_retries

(* range(0, total, BATCH_SIZE) over slices of batch_size documents. *)
NextStartByConstant(start) == start + BATCH_SIZE

(* `for i in range(0, total, batch_size)`: the start of the next batch. *)
NextStart(start) == start + batch_size

(* `inserted += len(batch)` in the BulkWriteError handler. *)
PartialAddedWholeBatch(n, len) == len

(* `inserted += n_success`, n_success the nInserted of the error's details
   and len the length of the batch. *)
PartialAdded(n, len) == n

(* `inserted += 1` after the try of the per-document loop. *)
FallbackCountedAlways(ok) == 1

(* The per-document loop without its `inserted += 1`. *)
FallbackCountedNever(ok) == 0

(* `collection.insert_one(doc)` then `inserted += 1`, skipped when the
   insert raises. *)
FallbackCounted(ok) == IF ok THEN 1 ELSE 0

(* No sleep after a bulk write that succeeds. *)
SleepAfterPartialOnly(outcome) ==
    IF outcome = "partial" THEN Seconds(BATCH_DELAY * 2) ELSE 0

(* time.sleep(BATCH_DELAY) after a bulk write that succeeds,
   time.sleep(BATCH_DELAY * 2) after a BulkWriteError. *)
SleepAfter(outcome) ==
    IF outcome = "ok" THEN Seconds(BATCH_DELAY) ELSE Seconds(BATCH_DELAY * 2)

----------------------------------------------------------------------------
(* The generators of src/Data_Uploading.py, lines 37-161.  Amounts are
   counted in cents: a price is round(random.uniform(10, 500), 2), a whole
   number of cents, and the floating-point error of the sums and products
   of at most five such amounts (below 1e-9) is far from the nearest
   rounding boundary of round(x, 2) (at least 0.02 cent away). *)

Kinds == {"products", "customers", "orders", "reviews"}

(* The letter and the minimum field width of f'P{i:04d}', f'C{i:05d}',
   f'O{i:06d}' and f'R{i:05d}'. *)
IdPrefix(kind) ==
    CASE kind = "products"  -> "P"
      [] kind = "customers" -> "C"
      [] kind = "orders"    -> "O"
      [] kind = "reviews"   -> "R"

IdWidth(kind) ==
    CASE kind = "products"  -> 4
      [] kind = "customers" -> 5
      [] kind = "orders"    -> 6
      [] kind = "reviews"   -> 5

RECURSIVE Pow10(_)
Pow10(k) == IF k = 0 THEN 1 ELSE 10 * Pow10(k - 1)

(* The decimal digits of n >= 0, most significant first. *)
RECURSIVE Digits(_)
Digits(n) == IF n < 10 THEN <<n>> ELSE Append(Digits(n \div 10), n % 10)

(* The format spec `0<w>d`: zeros are added on the left up to w digits; a
   longer number is left as it is. *)
ZeroPad(ds, w) ==
    [k \in 1..(IF Len(ds) >= w THEN 0 ELSE w - Len(ds)) |-> 0] \o ds

(* An identifier is its letter followed by its digit characters. *)
FormatId(kind, n) ==
    [prefix |-> IdPrefix(kind), digits |-> ZeroPad(Digits(n), IdWidth(kind))]

(* The number an identifier's digits spell. *)
RECURSIVE DigitsValue(_)
DigitsValue(ds) ==
    IF ds = << >> THEN 0
    ELSE 10 * DigitsValue(SubSeq(ds, 1, Len(ds) - 1)) + ds[Len(ds)]

(* round(x, 2) of the amount num / den cents (num >= 0, den > 0): the
   nearest whole cent, a tie going to the even cent. *)
RoundCents(num, den) ==
    LET q == num \div den
        r == num % den
    IN  IF 2 * r < den THEN q
        ELSE IF 2 * r > den THEN q + 1
        ELSE IF q % 2 = 0 THEN q ELSE q + 1

(* random.randint(1, 3) *)
Quantities == 1..3

(* random.randint(1, 5), cut at MaxItems. *)
NumItems == 1..Min(5, MaxItems)

(* Prices in cents that round(random.uniform(10, 500), 2) can give: the
   least one and one whose tax rounds up. *)
PriceSamples == {1000, 1007}

(* The price drawn for each of n products: every table of samples for the
   small counts, one price for all products above them. *)
PriceTables(n) ==
    IF n <= 2 THEN [1..n -> PriceSamples]
    ELSE {[k \in 1..n |-> p] : p \in PriceSamples}

(* generate_products(n), price[k] the price drawn for product k. *)
generate_products(n, price) ==
    [k \in 1..n |-> [id         |-> FormatId("products", k),
                     product_id |-> FormatId("products", k),
                     price      |-> price[k]]]

(* generate_customers(n) *)
generate_customers(n) ==
    [k \in 1..n |-> [id          |-> FormatId("customers", k),
                     customer_id |-> FormatId("customers", k)]]

(* Lines 98-110: one line item, of product `product` in quantity q. *)
ItemOf(product, q) ==
    [product_id |-> product.product_id,
     quantity   |-> q,
     unit_price |-> product.price,
     item_total |-> RoundCents(product.price * q, 1)]

RECURSIVE SumSeq(_)
SumSeq(s) == IF s = << >> THEN 0 ELSE s[1] + SumSeq(Tail(s))

(* `total_amount += item_total` over the items drawn (the amounts before
   they are rounded). *)
TotalOf(products, draws) ==
    SumSeq([m \in 1..Len(draws) |->
               products[draws[m].product].price * draws[m].quantity])

(* round(total_amount * 0.08, 2), cut to the cent below. *)
TaxOfTruncated(total) == (total * 8) \div 100

(* 'tax': round(total_amount * 0.08, 2) *)
TaxOf(total) == RoundCents(total * 8, 100)

(* Lines 89-127: order k, for the customer and the items drawn. *)
OrderOf(k, customers, products, pick) ==
    [id           |-> FormatId("orders", k),
     order_id     |-> FormatId("orders", k),
     customer_id  |-> customers[pick.customer].customer_id,
     items        |-> [m \in 1..Len(pick.items) |->
                          ItemOf(products[pick.items[m].product],
                                 pick.items[m].quantity)],
     total_amount |-> RoundCents(TotalOf(products, pick.items), 1),
     tax          |-> TaxOf(TotalOf(products, pick.items))]

(* What random.choice and random.randint can draw for one order: a
   customer, and one to five items, each a product and a quantity. *)
ItemDraws(np) ==
    UNION {[1..k -> [product : 1..np, quantity : Quantities]] :
              k \in NumItems}

OrderDraws(nc, np) == [customer : 1..nc, items : ItemDraws(np)]

(* generate_orders(customers, products, n), picks[k] the draws of order
   k. *)
generate_orders(customers, products, n, picks) ==
    [k \in 1..n |-> OrderOf(k, customers, products, picks[k])]

(* 'order_id': f'O{i:06d}' with the index of the review. *)
ReviewOfIndexed(k, order, item) ==
    [id          |-> FormatId("reviews", k),
     review_id   |-> FormatId("reviews", k),
     order_id    |-> FormatId("orders", k),
     product_id  |-> item.product_id,
     customer_id |-> order.customer_id]

(* Lines 146-158: review k of the item drawn from the order drawn. *)
ReviewOf(k, order, item) ==
    [id          |-> FormatId("reviews", k),
     review_id   |-> FormatId("reviews", k),
     order_id    |-> order.order_id,
     product_id  |-> item.product_id,
     customer_id |-> order.customer_id]

(* random.choice(orders) and random.choice(order['items']). *)
ReviewDraws(orders) ==
    {d \in [order : 1..Len(orders), item : 1..5] :
        d.item <= Len(orders[d.order].items)}

(* generate_reviews(orders, n): `if order['items']` holds of every order,
   which has one item at least, so a review is appended at every index. *)
generate_reviews(orders, n, picks) ==
    [k \in 1..n |-> ReviewOf(k, orders[picks[k].order],
                             orders[picks[k].order].items[picks[k].item])]

(* The counts <<products, customers, orders, reviews>> the generators are
   called with: none, small ones, ones that leave random.choice an empty
   list, and the first count whose last product number has more digits
   than IdWidth. *)
GenCounts ==
    {<<0, 0, 0, 0>>, <<1, 2, 2, 2>>, <<2, 1, 1, 2>>, <<1, 0, 1, 0>>,
     <<1, 1, 0, 1>>, <<Pow10(IdWidth("products")), 0, 0, 0>>}

(* phase: the generator call to come; n: the counts; raised: an IndexError
   left a generator (random.choice of an empty list). *)
GenIdle ==
    [phase |-> "idle", n |-> <<0, 0, 0, 0>>, products |-> << >>,
     customers |-> << >>, orders |-> << >>, reviews |-> << >>,
     raised |-> FALSE]

----------------------------------------------------------------------------
(* Constants of src/dashboard_retail.py *)

Pages == {"About", "Overview", "Products", "Customers", "Orders", "Reviews"}

LoadFunctions ==
    {"load_products", "load_customers", "load_orders", "load_reviews"}

AggregationFunctions ==
    {"get_category_stats", "get_sales_by_state", "get_top_products"}

DataFunctions == LoadFunctions \cup AggregationFunctions

(* get_top_products aggregates db.orders. *)
SourceCollectionSwapped(f) ==
    CASE f = "load_products"      -> "products"
      [] f = "load_customers"     -> "customers"
      [] f = "load_orders"        -> "orders"
      [] f = "load_reviews"       -> "reviews"
      [] f = "get_category_stats" -> "products"
      [] f = "get_sales_by_state" -> "orders"
      [] f = "get_top_products"   -> "orders"

(* db.<collection> read by each data function. *)
SourceCollection(f) ==
    CASE f = "load_products"      -> "products"
      [] f = "load_customers"     -> "customers"
      [] f = "load_orders"        -> "orders"
      [] f = "load_reviews"       -> "reviews"
      [] f = "get_category_stats" -> "products"
      [] f = "get_sales_by_state" -> "orders"
      [] f = "get_top_products"   -> "reviews"

(* load_reviews issues a delete_many. *)
QueryOpWriting(f) ==
    IF f = "load_reviews" THEN "delete_many"
    ELSE IF f \in LoadFunctions THEN "find" ELSE "aggregate"

(* The store operation each data function issues. *)
QueryOp(f) == IF f \in LoadFunctions THEN "find" ELSE "aggregate"

(* What an operation leaves of a collection of n documents. *)
StoreAfter(op, n) ==
    CASE op = "find"        -> n
      [] op = "aggregate"   -> n
      [] op = "insert_one"  -> n + 1
      [] op = "delete_many" -> 0

(* {'$match': {'review_count': {'$gte': 2}}} and {'$limit': 15} *)
MinReviewCount == 2

TopLimit == 15

(* Numbers of documents the query of f can return from n source documents:
   find returns them all; a $group returns one document per distinct key,
   at least one when there is a document; get_top_products keeps the groups
   of MinReviewCount or more reviews, TopLimit of them at most. *)
QueryRows(f, n) ==
    CASE f \in LoadFunctions     -> {n}
      [] f = "get_top_products"  -> 0..Min(n \div MinReviewCount, TopLimit)
      [] OTHER                   -> IF n = 0 THEN {0} ELSE 1..n

(* pd.DataFrame(data) for the loads; `if data: ... return df`, else
   `return pd.DataFrame()` for the aggregations.  A frame is "empty" or a
   "table" (DataFrame.empty). *)
Frame(rows) == IF rows > 0 THEN "table" ELSE "empty"

(* Exceptions the body of a data function can meet. *)
ExceptionKinds == {"PyMongoError", "Exception"}

(* `except PyMongoError as e` *)
CaughtPyMongoOnly(kind) == kind = "PyMongoError"

(* `except Exception as e` *)
Caught(kind) == kind \in ExceptionKinds

(* The data functions a view calls, in order; ViewGate is the number of
   calls after which the view returns if a frame loaded so far is empty. *)
ViewPlan(p) ==
    CASE p = "About"     -> << >>
      [] p = "Overview"  -> <<"load_products", "load_customers",
                              "load_orders", "load_reviews",
                              "get_sales_by_state", "get_category_stats">>
      [] p = "Products"  -> <<"load_products", "get_category_stats">>
      [] p = "Customers" -> <<"load_customers">>
      [] p = "Orders"    -> <<"load_orders", "get_sales_by_state">>
      [] p = "Reviews"   -> <<"load_reviews", "get_top_products">>

ViewGate(p) == IF p = "Overview" THEN 4 ELSE 1

NotCached == [value |-> "none", error |-> FALSE]

(* fn: the function called; ran: its body ran (no cache hit); op: the store
   operation it issued; failure: what went wrong; result: the frame it
   returned; error: st.error was shown; escaped: an exception left it;
   connOpened, queries: MongoClient was called, queries were issued, in this
   or an earlier call. *)
NoCall == [fn |-> "none", ran |-> FALSE, sourceEmpty |-> FALSE,
           op |-> "none", failure |-> "none", result |-> "none",
           error |-> FALSE, escaped |-> FALSE, connOpened |-> FALSE,
           queries |-> 0]

----------------------------------------------------------------------------
VARIABLES
    proc,            \* which script this run is: "uploader" or "dashboard"
    connString,      \* os.environ.get('COSMOS_CONNECTION_STRING')
    FORCE_UPLOAD,    \* configuration flag of the uploader
    RESET_DATABASE,  \* configuration flag of the uploader
    docs,            \* the store: collection name -> number of documents
    faults,          \* store errors (not rate limits) still to be raised
    throttles,       \* batches that may still start to meet rate limits
    pc,              \* position of the uploader
    exitCode,        \* -1 while running, then the code given to sys.exit
    cur,             \* index in COLLECTIONS of the kind being uploaded
    i,               \* insert_in_batches: start index of the current batch
    attempt,         \* insert_in_batches: attempt
    inserted,        \* insert_in_batches: inserted
    j,               \* insert_in_batches: index of doc in the fallback loop
    found,           \* clear_collection_safely: len(docs) of the last scan
    deleted,         \* clear_collection_safely: deleted
    all_success,     \* verification result
    slept,           \* duration of the last time.sleep, in ticks
    hist,            \* observations of the run (record, see HistInit)
    dpc,             \* position of the dashboard script
    page,            \* the view selected in the sidebar
    step,            \* number of data functions the view has called
    conn,            \* st.cache_resource entry of init_connection
    cache,           \* st.cache_data entries of the seven data functions
    shown,           \* functions whose st.error is on the page
    call,            \* the last call of a data function (see NoCall)
    gen              \* the generators' calls and results (see GenIdle)

envVars == <<proc, connString, FORCE_UPLOAD, RESET_DATABASE>>

dashVars == <<dpc, page, step, conn, cache, shown, call>>

vars == <<proc, connString, FORCE_UPLOAD, RESET_DATABASE, docs, faults,
          throttles, pc, exitCode, cur, i, attempt, inserted, j, found,
          deleted, all_success, slept, hist, dpc, page, step, conn, cache,
          shown, call, gen>>

Cur == COLLECTIONS[cur]

Total == GeneratedCount(Cur)

NoneYet == [c \in CollectionNames |-> -1]

Never == [c \in CollectionNames |-> FALSE]

HistInit ==
    [ connOpened       |-> FALSE,    \* MongoClient(...) was called
      generated        |-> FALSE,    \* the generators ran
      storeCalls       |-> 0,        \* 0, or 1 once any store call was made
      gateCount        |-> NoneYet,  \* count read at the gate of each kind
      verCount         |-> NoneYet,  \* count read at the verification step
      insertIssued     |-> Never,    \* a bulk_write or insert_one was issued
      deleteIssued     |-> Never,    \* a delete_many was issued
      deleteAfterInsert|-> Never,    \* a delete_many came after an insert
      deleteFailed     |-> Never,    \* a delete_many raised
      docsAtFirstInsert|-> NoneYet,  \* documents held at the first insert
      submitted        |-> [c \in CollectionNames |-> 0],
                                     \* documents handed to a first bulk write
      uploaded         |-> Never,    \* insert_in_batches returned
      batchStart       |-> -1,       \* i of the batch last taken
      batchWrites      |-> 0,        \* bulk_write calls of that batch
      batchThrottles   |-> 0,        \* rate-limit errors of that batch
      throttledBatches |-> 0,        \* batches of the run that met one
      batchInserts     |-> 0,        \* insert_one calls of that batch
      batchOutcome     |-> "none",   \* how that batch ended
      insertedAtBatch  |-> 0,        \* inserted when that batch was taken
      lastBulkLen      |-> 0,        \* len(requests) of the last bulk_write
      backoff          |-> 0,        \* last rate-limit delay of that batch
      nInserted        |-> 0,        \* nInserted of that batch's BulkWriteError
      insertOks        |-> 0,        \* insert_one calls of that batch that
                                     \* returned
      returned         |-> NoneYet,  \* value insert_in_batches returned
      escaped          |-> FALSE,    \* an exception reached the outer handler
      escapedAt        |-> "none" ]  \* where that exception was raised

(* Neither script has taken a step. *)
Started ==
    /\ pc = "start"
    /\ exitCode = -1
    /\ cur = 1
    /\ i = 0
    /\ attempt = 0
    /\ inserted = 0
    /\ j = 0
    /\ found = 0
    /\ deleted = 0
    /\ all_success = TRUE
    /\ slept = 0
    /\ hist = HistInit
    /\ dpc = "start"
    /\ page = "About"
    /\ step = 0
    /\ conn = "none"
    /\ cache = [f \in DataFunctions |-> NotCached]
    /\ shown = {}
    /\ call = NoCall
    /\ gen = GenIdle

(* A run of the uploader under any configuration and fault plan, or a run
   of the dashboard, which reads neither flag and writes no batch. *)
Init ==
    /\ connString \in ConnStrings
    /\ docs \in InitialDbs
    /\ \/ /\ proc = "uploader"
          /\ \E cf \in Configs :
                /\ FORCE_UPLOAD = cf[1]
                /\ RESET_DATABASE = cf[2]
          /\ \E fp \in FaultPlans :
                /\ faults = fp[1]
                /\ throttles = fp[2]
       \/ /\ proc = "dashboard"
          /\ FORCE_UPLOAD = FALSE
          /\ RESET_DATABASE = FALSE
          /\ faults = MaxFaults
          /\ throttles = 0
    /\ Started

----------------------------------------------------------------------------
(* The uploader, src/Data_Uploading.py *)

Touch(h) == [h EXCEPT !.storeCalls = 1]

(* `except Exception as e: ... return False`, then sys.exit(1). *)
Fatal(h) ==
    /\ pc' = "exited"
    /\ exitCode' = 1
    /\ hist' = [h EXCEPT !.escaped = TRUE, !.escapedAt = pc]

(* Leave the block of the current kind: the next kind, or verification. *)
Advance ==
    IF cur = NumCollections
    THEN /\ pc' = "verify"
         /\ cur' = cur
    ELSE /\ pc' = "gate"
         /\ cur' = cur + 1

(* Lines 17-21: the module-level check of the connection string. *)
UpStart ==
    /\ proc = "uploader"
    /\ pc = "start"
    /\ IF MissingConnString(connString)
       THEN /\ pc' = "exited"
            /\ exitCode' = 1
       ELSE /\ pc' = "connect"
            /\ exitCode' = exitCode
    /\ UNCHANGED <<envVars, dashVars, gen, docs, faults, throttles, cur, i, attempt,
                   inserted, j, found, deleted, all_success, slept, hist>>

(* Lines 165-168: MongoClient(...) and client.server_info(). *)
ConnectOk ==
    /\ pc = "connect"
    /\ pc' = IF RESET_DATABASE THEN "drop" ELSE "generate"
    /\ hist' = [hist EXCEPT !.connOpened = TRUE]
    /\ UNCHANGED <<envVars, dashVars, gen, docs, faults, throttles, exitCode, cur, i,
                   attempt, inserted, j, found, deleted, all_success, slept>>

ConnectFail ==
    /\ pc = "connect"
    /\ CanFail(faults)
    /\ faults' = Spent(faults)
    /\ Fatal([hist EXCEPT !.connOpened = TRUE])
    /\ UNCHANGED <<envVars, dashVars, gen, docs, throttles, cur, i, attempt, inserted, j,
                   found, deleted, all_success, slept>>

(* Lines 170-177: client.drop_database, its error caught and reported. *)
DropOk ==
    /\ pc = "drop"
    /\ docs' = [c \in CollectionNames |-> 0]
    /\ slept' = Seconds(2)
    /\ pc' = "generate"
    /\ hist' = Touch(hist)
    /\ UNCHANGED <<envVars, dashVars, gen, faults, throttles, exitCode, cur, i, attempt,
                   inserted, j, found, deleted, all_success>>

DropFail ==
    /\ pc = "drop"
    /\ CanFail(faults)
    /\ faults' = Spent(faults)
    /\ pc' = "generate"
    /\ hist' = Touch(hist)
    /\ UNCHANGED <<envVars, dashVars, gen, docs, throttles, exitCode, cur, i, attempt,
                   inserted, j, found, deleted, all_success, slept>>

(* Lines 185-207: generate the four kinds, then list the collections and
   count the existing ones (store calls inside the outer try). *)
GenerateAndCheck ==
    /\ pc = "generate"
    /\ \/ /\ pc' = "gate"
          /\ hist' = Touch([hist EXCEPT !.generated = TRUE])
          /\ UNCHANGED <<faults, exitCode>>
       \/ /\ CanFail(faults)
          /\ faults' = Spent(faults)
          /\ Fatal(Touch([hist EXCEPT !.generated = TRUE]))
    /\ UNCHANGED <<envVars, dashVars, gen, docs, throttles, cur, i, attempt, inserted, j,
                   found, deleted, all_success, slept>>

(* Lines 280-289 (and the three copies below them): the gate of one kind. *)
GateOk ==
    /\ pc = "gate"
    /\ hist' = Touch([hist EXCEPT !.gateCount[Cur] = docs[Cur]])
    /\ IF ShouldUpload(FORCE_UPLOAD, docs[Cur])
       THEN /\ cur' = cur
            /\ IF ShouldClear(FORCE_UPLOAD, docs[Cur])
               THEN pc' = "clear_find"
               ELSE pc' = "batch"
       ELSE Advance
    /\ i' = 0
    /\ inserted' = 0
    /\ deleted' = 0
    /\ UNCHANGED <<envVars, dashVars, gen, docs, faults, throttles, exitCode, attempt, j,
                   found, all_success, slept>>

GateFail ==
    /\ pc = "gate"
    /\ CanFail(faults)
    /\ faults' = Spent(faults)
    /\ Fatal(Touch(hist))
    /\ UNCHANGED <<envVars, dashVars, gen, docs, throttles, cur, i, attempt, inserted, j,
                   found, deleted, all_success, slept>>

(* clear_collection_safely, lines 263-277.  The scan is outside the try of
   the loop, so its error reaches the outer handler. *)
ClearFindOk ==
    /\ pc = "clear_find"
    /\ found' = Min(clear_batch_size, docs[Cur])
    /\ pc' = IF ClearDone(found') THEN "batch" ELSE "clear_delete"
    /\ hist' = Touch(hist)
    /\ UNCHANGED <<envVars, dashVars, gen, docs, faults, throttles, exitCode, cur, i,
                   attempt, inserted, j, deleted, all_success, slept>>

ClearFindFail ==
    /\ pc = "clear_find"
    /\ CanFail(faults)
    /\ faults' = Spent(faults)
    /\ Fatal(Touch(hist))
    /\ UNCHANGED <<envVars, dashVars, gen, docs, throttles, cur, i, attempt, inserted, j,
                   found, deleted, all_success, slept>>

DeleteIssued(h) ==
    Touch([h EXCEPT !.deleteIssued[Cur] = TRUE,
                    !.deleteAfterInsert[Cur] = @ \/ h.insertIssued[Cur]])

ClearDeleteOk ==
    /\ pc = "clear_delete"
    /\ docs' = [docs EXCEPT ![Cur] = @ - found]
    /\ deleted' = deleted + found
    /\ slept' = HalfSeconds(3)
    /\ pc' = ClearAfterDelete(TRUE)
    /\ hist' = DeleteIssued(hist)
    /\ UNCHANGED <<envVars, dashVars, gen, faults, throttles, exitCode, cur, i, attempt,
                   inserted, j, found, all_success>>

ClearDeleteFail ==
    /\ pc = "clear_delete"
    /\ CanFail(faults)
    /\ faults' = Spent(faults)
    /\ slept' = Seconds(3)
    /\ pc' = ClearAfterDelete(FALSE)
    /\ hist' = [DeleteIssued(hist) EXCEPT !.deleteFailed[Cur] = TRUE]
    /\ UNCHANGED <<envVars, dashVars, gen, docs, throttles, exitCode, cur, i, attempt,
                   inserted, j, found, deleted, all_success>>

(* insert_in_batches, lines 211-261. *)

(* `for i in range(0, total, batch_size)`: take the next batch, or return. *)
BatchHead ==
    /\ pc = "batch"
    /\ IF i >= Total
       THEN /\ Advance
            /\ hist' = [hist EXCEPT !.uploaded[Cur] = TRUE,
                                    !.returned[Cur] = inserted,
                                    !.batchStart = -1,
                                    !.batchWrites = 0,
                                    !.batchThrottles = 0,
                                    !.batchInserts = 0,
                                    !.batchOutcome = "none",
                                    !.insertedAtBatch = 0,
                                    !.backoff = 0,
                                    !.nInserted = 0,
                                    !.insertOks = 0]
            /\ attempt' = attempt
       ELSE /\ pc' = "write"
            /\ cur' = cur
            /\ attempt' = 0
            /\ hist' = [hist EXCEPT
                          !.batchStart = i,
                          !.batchWrites = 0,
                          !.batchThrottles = 0,
                          !.batchInserts = 0,
                          !.batchOutcome = "open",
                          !.insertedAtBatch = inserted,
                          !.backoff = 0,
                          !.nInserted = 0,
                          !.insertOks = 0,
                          !.submitted[Cur] = @ + BatchLen(Total, i)]
    /\ UNCHANGED <<envVars, dashVars, gen, docs, faults, throttles, exitCode, i, inserted,
                   j, found, deleted, all_success, slept>>

(* collection.bulk_write(requests, ordered=False) was called. *)
BulkIssued(h) ==
    Touch([h EXCEPT
             !.batchWrites = @ + 1,
             !.lastBulkLen = BatchLen(Total, i),
             !.insertIssued[Cur] = TRUE,
             !.docsAtFirstInsert[Cur] =
                 IF h.insertIssued[Cur] THEN @ ELSE docs[Cur]])

(* Lines 223-228: the bulk write succeeds. *)
BulkWriteOk ==
    /\ pc = "write"
    /\ attempt <= max_retries
    /\ docs' = [docs EXCEPT ![Cur] = @ + BatchLen(Total, i)]
    /\ inserted' = inserted + BatchLen(Total, i)
    /\ slept' = SleepAfter("ok")
    /\ i' = NextStart(i)
    /\ pc' = "batch"
    /\ hist' = [BulkIssued(hist) EXCEPT !.batchOutcome = "ok"]
    /\ UNCHANGED <<envVars, dashVars, gen, faults, throttles, exitCode, cur, attempt, j,
                   found, deleted, all_success>>

(* Lines 229-238: BulkWriteError, n of the batch's documents inserted. *)
BulkWritePartial ==
    /\ pc = "write"
    /\ attempt <= max_retries
    /\ CanFail(faults)
    /\ faults' = Spent(faults)
    /\ \E n \in PartialCounts(BatchLen(Total, i)) :
          /\ docs' = [docs EXCEPT ![Cur] = @ + n]
          /\ inserted' = inserted + PartialAdded(n, BatchLen(Total, i))
          /\ hist' = [BulkIssued(hist) EXCEPT !.batchOutcome = "partial",
                                              !.nInserted = n]
    /\ slept' = SleepAfter("partial")
    /\ i' = NextStart(i)
    /\ pc' = "batch"
    /\ UNCHANGED <<envVars, dashVars, gen, throttles, exitCode, cur, attempt, j, found,
                   deleted, all_success>>

(* Lines 239-249: a PyMongoError whose message names a rate limit. *)
BulkWriteRateLimited ==
    /\ pc = "write"
    /\ attempt <= max_retries
    /\ hist.batchThrottles > 0 \/ CanFail(throttles)
    /\ throttles' = IF hist.batchThrottles > 0 THEN throttles
                                                ELSE Spent(throttles)
    /\ \E jit \in Jitters :
          /\ slept' = Backoff(attempt, jit)
          /\ hist' = [BulkIssued(hist) EXCEPT
                        !.batchThrottles = @ + 1,
                        !.throttledBatches =
                            IF hist.batchThrottles = 0 THEN @ + 1 ELSE @,
                        !.backoff = Backoff(attempt, jit),
                        !.batchOutcome =
                            IF RetriesExhausted(attempt + 1)
                            THEN "abandoned" ELSE @]
    /\ attempt' = attempt + 1
    /\ IF RetriesExhausted(attempt + 1)
       THEN /\ i' = NextStart(i)
            /\ pc' = "batch"
       ELSE /\ i' = i
            /\ pc' = "write"
    /\ UNCHANGED <<envVars, dashVars, gen, docs, faults, exitCode, cur, inserted, j, found,
                   deleted, all_success>>

(* Lines 250-252: any other PyMongoError starts the per-document loop. *)
BulkWriteOtherError ==
    /\ pc = "write"
    /\ attempt <= max_retries
    /\ CanFail(faults)
    /\ faults' = Spent(faults)
    /\ j' = 0
    /\ pc' = "fallback"
    /\ hist' = BulkIssued(hist)
    /\ UNCHANGED <<envVars, dashVars, gen, docs, throttles, exitCode, cur, i, attempt,
                   inserted, found, deleted, all_success, slept>>

(* collection.insert_one(doc) was called; after the last document the
   `break` of line 259 ends the batch. *)
InsertOneIssued(h) ==
    Touch([h EXCEPT
             !.batchInserts = @ + 1,
             !.insertIssued[Cur] = TRUE,
             !.docsAtFirstInsert[Cur] =
                 IF h.insertIssued[Cur] THEN @ ELSE docs[Cur],
             !.batchOutcome =
                 IF j + 1 = BatchLen(Total, i) THEN "fallback" ELSE @])

FallbackStep(ok) ==
    /\ j' = j + 1
    /\ IF j + 1 = BatchLen(Total, i)
       THEN /\ i' = NextStart(i)
            /\ pc' = "batch"
       ELSE /\ i' = i
            /\ pc' = "fallback"
    /\ inserted' = inserted + FallbackCounted(ok)
    /\ hist' = [InsertOneIssued(hist) EXCEPT
                  !.insertOks = IF ok THEN @ + 1 ELSE @]

(* Lines 253-256. *)
FallbackInsertOk ==
    /\ pc = "fallback"
    /\ j < BatchLen(Total, i)
    /\ docs' = [docs EXCEPT ![Cur] = @ + 1]
    /\ slept' = HalfSeconds(1)
    /\ FallbackStep(TRUE)
    /\ UNCHANGED <<envVars, dashVars, gen, faults, throttles, exitCode, cur, attempt, found,
                   deleted, all_success>>

(* Lines 257-258: `except Exception as e2`, the document is skipped. *)
FallbackInsertFail ==
    /\ pc = "fallback"
    /\ j < BatchLen(Total, i)
    /\ CanFail(faults)
    /\ faults' = Spent(faults)
    /\ FallbackStep(FALSE)
    /\ UNCHANGED <<envVars, dashVars, gen, docs, throttles, exitCode, cur, attempt,
                   found, deleted, all_success, slept>>

(* `count > MIN_DOCS_PER_COLLECTION` asked of every collection. *)
AllSuccessStrict(d) ==
    \A c \in CollectionNames : d[c] > MIN_DOCS_PER_COLLECTION

(* Lines 338-345: all_success after the loop over the four collections. *)
AllSuccess(d) == \A c \in CollectionNames : d[c] >= MIN_DOCS_PER_COLLECTION

(* Line 390: sys.exit(0 if success else 1). *)
ExitCodeOf(success) == IF success THEN 0 ELSE 1

(* Lines 331-352: the verification step counts the four collections. *)
VerifyOk ==
    /\ pc = "verify"
    /\ all_success' = AllSuccess(docs)
    /\ hist' = Touch([hist EXCEPT !.verCount = docs])
    /\ pc' = "sample"
    /\ UNCHANGED <<envVars, dashVars, gen, docs, faults, throttles, exitCode, cur, i,
                   attempt, inserted, j, found, deleted, slept>>

VerifyFail ==
    /\ pc = "verify"
    /\ CanFail(faults)
    /\ faults' = Spent(faults)
    /\ Fatal(Touch(hist))
    /\ UNCHANGED <<envVars, dashVars, gen, docs, throttles, cur, i, attempt, inserted, j,
                   found, deleted, all_success, slept>>

(* Lines 358-373 and 389-390: the sample reads (find_one), client.close(),
   `return all_success` and sys.exit. *)
SampleOk ==
    /\ pc = "sample"
    /\ pc' = "exited"
    /\ exitCode' = ExitCodeOf(all_success)
    /\ hist' = Touch(hist)
    /\ UNCHANGED <<envVars, dashVars, gen, docs, faults, throttles, cur, i, attempt,
                   inserted, j, found, deleted, all_success, slept>>

SampleFail ==
    /\ pc = "sample"
    /\ CanFail(faults)
    /\ faults' = Spent(faults)
    /\ Fatal(Touch(hist))
    /\ UNCHANGED <<envVars, dashVars, gen, docs, throttles, cur, i, attempt, inserted, j,
                   found, deleted, all_success, slept>>

----------------------------------------------------------------------------
(* The dashboard, src/dashboard_retail.py *)

upState == <<FORCE_UPLOAD, RESET_DATABASE, throttles, pc, exitCode, cur, i,
             attempt, inserted, j, found, deleted, all_success, slept, hist,
             gen>>

(* Lines 26-30 and main(): one run of the script, started by opening the
   page (the radio's first option) or by a selection in the sidebar. *)
Rerun ==
    /\ proc = "dashboard"
    /\ dpc \in {"start", "idle"}
    /\ \E p \in Pages :
          /\ dpc = "start" => p = "About"
          /\ IF MissingConnString(connString)
             THEN /\ dpc' = "stopped"
                  /\ page' = page
             ELSE /\ dpc' = IF ViewPlan(p) = << >> THEN "idle" ELSE "render"
                  /\ page' = p
    /\ step' = 0
    /\ shown' = {}
    /\ call' = [NoCall EXCEPT !.connOpened = call.connOpened,
                              !.queries = call.queries]
    /\ UNCHANGED <<proc, connString, upState, docs, faults, conn, cache>>

Fn == ViewPlan(page)[step + 1]

(* The view returns after its gate if a frame it loaded is empty (the
   st.warning branches), and after its last call. *)
ViewDone(k, c) ==
    \/ k = Len(ViewPlan(page))
    \/ /\ k = ViewGate(page)
       /\ \E m \in 1..k : c[ViewPlan(page)[m]].value = "empty"

CallOf(f) ==
    [NoCall EXCEPT !.fn = f, !.connOpened = call.connOpened,
                   !.queries = call.queries]

(* st.cache_data: the stored value is returned, its st.error replayed. *)
CachedOf(f) ==
    /\ cache[f].value # "none"
    /\ call' = [CallOf(f) EXCEPT !.result = cache[f].value,
                                 !.error = cache[f].error]
    /\ shown' = IF cache[f].error THEN shown \cup {f} ELSE shown
    /\ UNCHANGED <<docs, faults, conn, cache>>

(* init_connection fails (now, or its None is cached): st.error, and the
   function returns an empty frame. *)
NoConnectionOf(f) ==
    /\ cache[f].value = "none"
    /\ \/ /\ conn = "failed"
          /\ UNCHANGED faults
       \/ /\ conn = "none"
          /\ CanFail(faults)
          /\ faults' = Spent(faults)
    /\ conn' = "failed"
    /\ cache' = [cache EXCEPT ![f] = [value |-> "empty", error |-> TRUE]]
    /\ call' = [CallOf(f) EXCEPT
                  !.ran = TRUE,
                  !.sourceEmpty = docs[SourceCollection(f)] = 0,
                  !.failure = "connection",
                  !.result = "empty", !.error = TRUE,
                  !.connOpened = TRUE]
    /\ shown' = shown \cup {f}
    /\ UNCHANGED docs

(* The query runs and returns rows. *)
QueryOkOf(f) ==
    /\ cache[f].value = "none"
    /\ conn \in {"none", "client"}
    /\ conn' = "client"
    /\ docs' = [docs EXCEPT ![SourceCollection(f)] =
                               StoreAfter(QueryOp(f), @)]
    /\ \E rows \in QueryRows(f, docs[SourceCollection(f)]) :
          /\ cache' = [cache EXCEPT ![f] = [value |-> Frame(rows),
                                            error |-> FALSE]]
          /\ call' = [CallOf(f) EXCEPT
                        !.ran = TRUE,
                        !.sourceEmpty = docs[SourceCollection(f)] = 0,
                        !.op = QueryOp(f),
                        !.result = Frame(rows),
                        !.connOpened = TRUE, !.queries = 1]
    /\ UNCHANGED <<faults, shown>>

(* The query, or the code after it inside the try, raises: st.error and an
   empty frame when the handler catches it. *)
QueryRaisesOf(f) ==
    /\ cache[f].value = "none"
    /\ conn \in {"none", "client"}
    /\ conn' = "client"
    /\ CanFail(faults)
    /\ faults' = Spent(faults)
    /\ \E kind \in ExceptionKinds :
          LET c == [CallOf(f) EXCEPT
                      !.ran = TRUE,
                      !.sourceEmpty = docs[SourceCollection(f)] = 0,
                      !.op = QueryOp(f),
                      !.failure = kind,
                      !.connOpened = TRUE, !.queries = 1]
          IN  IF Caught(kind)
              THEN /\ cache' = [cache EXCEPT ![f] = [value |-> "empty",
                                                     error |-> TRUE]]
                   /\ call' = [c EXCEPT !.result = "empty", !.error = TRUE]
                   /\ shown' = shown \cup {f}
              ELSE /\ call' = [c EXCEPT !.escaped = TRUE]
                   /\ UNCHANGED <<cache, shown>>
    /\ UNCHANGED docs

(* The view goes on to its next call, returns, or dies of an exception. *)
ViewStep ==
    /\ step' = IF call'.escaped THEN step ELSE step + 1
    /\ dpc' = IF call'.escaped THEN "crashed"
              ELSE IF ViewDone(step + 1, cache') THEN "idle" ELSE "render"
    /\ UNCHANGED <<proc, connString, upState, page>>

CallCached ==
    /\ dpc = "render"
    /\ CachedOf(Fn)
    /\ ViewStep

CallNoConnection ==
    /\ dpc = "render"
    /\ NoConnectionOf(Fn)
    /\ ViewStep

CallQueryOk ==
    /\ dpc = "render"
    /\ QueryOkOf(Fn)
    /\ ViewStep

CallQueryRaises ==
    /\ dpc = "render"
    /\ QueryRaisesOf(Fn)
    /\ ViewStep

(* @st.cache_data(ttl=300): an entry expires between two runs. *)
Expire ==
    /\ proc = "dashboard"
    /\ dpc = "idle"
    /\ \E f \in DataFunctions :
          /\ cache[f].value # "none"
          /\ cache' = [cache EXCEPT ![f] = NotCached]
    /\ UNCHANGED <<proc, connString, upState, docs, faults, dpc, page, step,
                   conn, shown, call>>

----------------------------------------------------------------------------
(* Properties of the uploader *)

Uploader == proc = "uploader"

\* C1: a collection whose count read at the gate is at or above
\* MIN_DOCS_PER_COLLECTION, with FORCE_UPLOAD false, receives no insert call
\* (bulk_write or insert_one) and no delete call during the run.
C1_SkipIssuesNoWrite ==
    \A c \in CollectionNames :
        (hist.gateCount[c] >= MIN_DOCS_PER_COLLECTION /\ ~FORCE_UPLOAD)
            => /\ ~hist.insertIssued[c]
               /\ ~hist.deleteIssued[c]
               /\ ~hist.uploaded[c]
               /\ hist.submitted[c] = 0

(* The run is over, one kind was skipped at the gate and another was
   uploaded. *)
C1_Witness ==
    /\ Uploader
    /\ pc = "exited"
    /\ ~FORCE_UPLOAD
    /\ \E c, d \in CollectionNames :
          /\ hist.gateCount[c] >= MIN_DOCS_PER_COLLECTION
          /\ hist.uploaded[d]
          /\ hist.insertIssued[d]

\* C2: a batch whose bulk writes all fail with a rate-limit error is written
\* max_retries + 1 times (five retries after the first attempt), is then
\* abandoned with none of its documents counted, and the loop goes on to the
\* next batch; no batch is abandoned earlier or otherwise.
C2_RateLimitedBatch ==
    /\ (hist.batchOutcome = "open" /\ hist.batchWrites > 0
            /\ hist.batchThrottles = hist.batchWrites)
          => /\ pc = "write"
             /\ hist.batchWrites <= 5
             /\ inserted = hist.insertedAtBatch
             /\ i = hist.batchStart
    /\ hist.batchOutcome = "abandoned"
          => /\ hist.batchWrites = 5 + 1
             /\ hist.batchThrottles = 5 + 1
             /\ hist.batchInserts = 0
             /\ inserted = hist.insertedAtBatch
             /\ pc = "batch"
             /\ i = hist.batchStart + batch_size

(* A batch that is not the last of its collection was abandoned. *)
C2_Witness ==
    /\ hist.batchOutcome = "abandoned"
    /\ hist.batchThrottles = 6
    /\ pc = "batch"
    /\ i < Total

C3_DelayOfRetry ==
    hist.batchThrottles >= 1 =>
        /\ hist.backoff >= Pow2(hist.batchThrottles - 1) * BATCH_DELAY
                              * 2 * TicksPerHalfSecond
        /\ hist.backoff < Pow2(hist.batchThrottles - 1) * BATCH_DELAY
                              * 2 * TicksPerHalfSecond + TicksPerHalfSecond
        /\ (hist.batchOutcome \in {"open", "abandoned"}
               /\ pc \in {"write", "batch"}) => slept = hist.backoff

C3_DelaysIncrease ==
    (hist'.batchThrottles = hist.batchThrottles + 1
        /\ hist.batchThrottles >= 1) => hist'.backoff > hist.backoff

\* C3: the delay slept after the k-th consecutive rate-limit error of a batch
\* (k = 0, 1, 2, ...) is BATCH_DELAY * 2^k seconds plus a jitter in
\* [0, 0.5) s; the delays of one batch increase strictly; k counts from 0 in
\* every batch.
C3_ExponentialBackoff == [] C3_DelayOfRetry /\ [][C3_DelaysIncrease]_vars

(* The second rate-limit error of the second batch of the run to meet
   rate limits. *)
C3_Witness ==
    /\ hist.throttledBatches = 2
    /\ hist.batchThrottles = 2
    /\ slept = hist.backoff

\* C4: the uploader exits with code 0 exactly when the verification step
\* found MIN_DOCS_PER_COLLECTION documents or more in each of the four
\* collections and no exception escaped the run; in every other outcome (a
\* collection below the threshold, a failed connection, a missing connection
\* string, an escaped exception) it exits with code 1.
C4_ExitCode ==
    Uploader =>
        /\ pc # "exited" => exitCode = -1
        /\ pc = "exited" =>
              /\ exitCode \in {0, 1}
              /\ exitCode = 0 <=>
                    /\ ~hist.escaped
                    /\ \A c \in CollectionNames :
                          hist.verCount[c] >= MIN_DOCS_PER_COLLECTION

(* Exit 0 after a run that uploaded a kind holding exactly the threshold. *)
C4_Witness ==
    /\ Uploader
    /\ pc = "exited"
    /\ exitCode = 0
    /\ \E c \in CollectionNames :
          hist.uploaded[c] /\ docs[c] = MIN_DOCS_PER_COLLECTION

\* C5: with FORCE_UPLOAD true, a collection that holds documents at the gate
\* sees every delete before its first insert, is empty when the first insert
\* is issued, and then has the full generated set of its kind submitted.
C5_ForceClearsThenInserts ==
    \A k \in 1..NumCollections :
        LET c == COLLECTIONS[k]
        IN  (Uploader /\ FORCE_UPLOAD /\ hist.gateCount[c] > 0) =>
                /\ ~hist.deleteAfterInsert[c]
                /\ hist.insertIssued[c] =>
                      /\ hist.deleteIssued[c]
                      /\ hist.docsAtFirstInsert[c] = 0
                /\ hist.uploaded[c] =>
                      hist.submitted[c] = GeneratedCount(c)
                /\ (~hist.escaped /\ (cur > k \/ pc \in {"verify", "sample",
                                                         "exited"}))
                      => hist.uploaded[c]

(* A collection of MIN_DOCS_PER_COLLECTION documents (three pages of
   deletes) was cleared and uploaded. *)
C5_Witness ==
    /\ Uploader
    /\ FORCE_UPLOAD
    /\ \E c \in CollectionNames :
          /\ hist.gateCount[c] = MIN_DOCS_PER_COLLECTION
          /\ hist.deleteIssued[c]
          /\ hist.uploaded[c]
          /\ hist.submitted[c] = GeneratedCount(c)
          /\ hist.docsAtFirstInsert[c] = 0

\* C6: BATCH_SIZE is the number of documents per write call: every bulk
\* write carries at most BATCH_SIZE documents, and every batch but the last
\* of a collection exactly BATCH_SIZE.
C6_BatchSizeConstant ==
    /\ hist.lastBulkLen <= BATCH_SIZE
    /\ (hist.batchWrites > 0 /\ hist.batchStart + hist.lastBulkLen < Total)
          => hist.lastBulkLen = BATCH_SIZE

----------------------------------------------------------------------------
(* Properties of both scripts and of the dashboard *)

\* C7: with the connection string unset or empty, the uploader exits with
\* code 1 before it opens a connection, generates data or calls the store,
\* and the dashboard stops before it opens a connection or issues a query.
C7_MissingConnectionString ==
    connString \in {"unset", "empty"} =>
        /\ pc \in {"start", "exited"}
        /\ pc = "exited" => exitCode = 1
        /\ ~hist.connOpened
        /\ ~hist.generated
        /\ hist.storeCalls = 0
        /\ dpc \in {"start", "stopped"}
        /\ conn = "none"
        /\ ~call.connOpened
        /\ call.queries = 0
        /\ call.fn = "none"

(* A script has ended on an empty connection string. *)
C7_Witness ==
    /\ connString = "empty"
    /\ \/ Uploader /\ pc = "exited" /\ exitCode = 1
       \/ ~Uploader /\ dpc = "stopped"

\* C8: each aggregation function (get_category_stats, get_sales_by_state,
\* get_top_products) whose source collection is empty returns an empty table
\* and raises no exception.
C8_EmptySourceEmptyTable ==
    \A f \in {"get_category_stats", "get_sales_by_state", "get_top_products"} :
        LET source == CASE f = "get_category_stats" -> "products"
                        [] f = "get_sales_by_state" -> "orders"
                        [] f = "get_top_products"   -> "reviews"
        IN  (call.fn = f /\ call.ran /\ docs[source] = 0) =>
                /\ call.result = "empty"
                /\ ~call.escaped
                /\ cache[f].value = "empty"

(* get_top_products ran its query on an empty reviews collection while the
   orders collection holds documents. *)
C8_Witness ==
    /\ call.fn = "get_top_products"
    /\ call.ran
    /\ call.failure = "none"
    /\ call.op = "aggregate"
    /\ docs["reviews"] = 0
    /\ docs["orders"] > 0
    /\ call.result = "empty"

\* C9: every load and aggregation function of the dashboard turns an
\* exception of its query, and a failed connection, into an inline error
\* message and an empty result; no exception leaves the function.
C9_ErrorsBecomeEmptyResults ==
    /\ dpc # "crashed"
    /\ ~call.escaped
    /\ (call.ran /\ call.failure # "none") =>
          /\ call.fn \in DataFunctions
          /\ call.result = "empty"
          /\ call.error
          /\ call.fn \in shown

(* The query of an aggregation function raised an exception that is no
   PyMongoError, in a view. *)
C9_Witness ==
    /\ dpc \in {"render", "idle"}
    /\ call.ran
    /\ call.fn \in AggregationFunctions
    /\ call.failure = "Exception"
    /\ call.result = "empty"

C10_DashboardStep == proc = "dashboard" => docs' = docs

C10_OnlyReads ==
    proc = "dashboard" => call.op \in {"none", "find", "aggregate"}

\* C10: no sequence of page selections and renders of the dashboard changes
\* the store: every operation it issues is a find or an aggregate, and the
\* four collections are unchanged by every step of the dashboard.
C10_DashboardReadOnly == [] C10_OnlyReads /\ [][C10_DashboardStep]_vars

(* The Overview page was rendered to its last query. *)
C10_Witness ==
    /\ proc = "dashboard"
    /\ page = "Overview"
    /\ dpc = "idle"
    /\ step = 6
    /\ call.op = "aggregate"
    /\ \A c \in CollectionNames : docs[c] > 0

----------------------------------------------------------------------------
(* Properties of the uploader's handling of store errors *)

C14_AfterPartial ==
    hist.batchOutcome = "partial" =>
        /\ pc = "batch"
        /\ inserted = hist.insertedAtBatch + hist.nInserted
        /\ hist.batchInserts = 0
        /\ i = hist.batchStart + batch_size

C14_NextBatch ==
    hist.batchOutcome = "partial" =>
        /\ docs' = docs
        /\ inserted' = inserted
        /\ hist'.batchWrites = 0
        /\ hist'.batchInserts = 0
        /\ hist'.batchStart =
              IF hist.batchStart + batch_size < GeneratedCount(COLLECTIONS[cur])
              THEN hist.batchStart + batch_size ELSE -1

\* C14: after a bulk write raises a partial bulk-write failure, the count
\* has grown by exactly the nInserted the error reports, no further
\* bulk_write or insert_one is issued for that batch, and the next step
\* takes the next batch (or returns after the last one).
C14_PartialFailure == [] C14_AfterPartial /\ [][C14_NextBatch]_vars

(* A batch that is not the last was rate-limited, then failed in part with
   all its documents but one inserted. *)
C14_Witness ==
    /\ hist.batchOutcome = "partial"
    /\ hist.batchThrottles >= 1
    /\ hist.nInserted = batch_size - 1
    /\ i < Total

C15_InFallback ==
    /\ pc = "fallback" =>
          /\ hist.batchOutcome = "open"
          /\ hist.batchInserts = j
          /\ j < Min(batch_size, Total - hist.batchStart)
          /\ i = hist.batchStart
          /\ hist.insertOks <= hist.batchInserts
          /\ inserted = hist.insertedAtBatch + hist.insertOks
    /\ hist.batchOutcome = "fallback" =>
          /\ pc = "batch"
          /\ hist.batchInserts = Min(batch_size, Total - hist.batchStart)
          /\ inserted = hist.insertedAtBatch + hist.insertOks
          /\ i = hist.batchStart + batch_size

C15_FallbackStep ==
    /\ pc = "fallback" =>
          /\ pc' \in {"fallback", "batch"}
          /\ hist'.batchInserts = hist.batchInserts + 1
          /\ hist'.batchWrites = hist.batchWrites
          /\ hist'.batchStart = hist.batchStart
          /\ inserted' - inserted = docs'[Cur] - docs[Cur]
    /\ hist.batchOutcome = "fallback" =>
          /\ hist'.batchStart # hist.batchStart
          /\ hist'.batchWrites = 0

\* C15: after a bulk write fails with a store error that is neither a
\* partial failure nor a rate limit, one insert_one is attempted for every
\* document of the batch in order, each success is counted, each failure is
\* passed over, and the loop then takes the next batch with no further
\* bulk write for that batch.
C15_PerDocumentFallback == [] C15_InFallback /\ [][C15_FallbackStep]_vars

(* The per-document loop of a batch that is not the last ended with one
   insert failed and the others counted. *)
C15_Witness ==
    /\ hist.batchOutcome = "fallback"
    /\ hist.batchInserts = batch_size
    /\ hist.insertOks = batch_size - 1
    /\ i < Total

\* C16: once connected, no error the store raises during the gate checks,
\* the clearing of a collection, the batch uploads or the verification
\* halts the run: no such error reaches the outer handler, and the run
\* reaches the verification step.
C16_NoStoreErrorHalts ==
    /\ hist.escaped =>
          hist.escapedAt \notin {"gate", "clear_find", "clear_delete",
                                 "write", "fallback", "verify"}
    /\ (Uploader /\ pc = "exited" /\ hist.gateCount["products"] >= 0) =>
          \A c \in CollectionNames : hist.gateCount[c] >= 0

\* C17: after every batch whose bulk write succeeds, the last batch of a
\* collection included, the uploader has slept BATCH_DELAY seconds when it
\* takes the next batch or returns.
C17_SleepAfterSuccess ==
    hist.batchOutcome = "ok" =>
        /\ pc = "batch"
        /\ slept = BATCH_DELAY * 2 * TicksPerHalfSecond

(* The last batch of a collection succeeded after a rate-limit retry. *)
C17_Witness ==
    /\ hist.batchOutcome = "ok"
    /\ hist.batchThrottles >= 1
    /\ i >= Total
    /\ pc = "batch"

C18_Round ==
    /\ (pc \in {"clear_find", "clear_delete"} /\ pc' = "batch") =>
          /\ pc = "clear_find"
          /\ docs[COLLECTIONS[cur]] = 0
          /\ docs' = docs
    /\ (pc = "clear_find" /\ docs[COLLECTIONS[cur]] > 0) =>
          pc' \in {"clear_delete", "exited"}
    /\ pc = "clear_delete" =>
          /\ pc' = "clear_find"
          /\ hist'.deleteFailed[COLLECTIONS[cur]] =>
                docs[COLLECTIONS[cur]] > 0
          /\ docs' = docs =>
                /\ slept' = 3 * 2 * TicksPerHalfSecond
                /\ deleted' = deleted
                /\ hist'.deleteFailed[COLLECTIONS[cur]]
          /\ docs' # docs =>
                /\ docs'[COLLECTIONS[cur]] < docs[COLLECTIONS[cur]]
                /\ deleted' - deleted
                      = docs[COLLECTIONS[cur]] - docs'[COLLECTIONS[cur]]

C18_Terminates ==
    (pc \in {"clear_find", "clear_delete"})
        ~> (hist.escaped \/ (pc = "batch" /\ docs[COLLECTIONS[cur]] = 0))

\* C18: clear_collection_safely returns only from a scan that finds no
\* document; a delete that raises is followed by a sleep of 3 s and another
\* scan, however many deletes have failed, and nothing but a successful
\* delete removes documents, so that the loop cannot return while every
\* delete fails and documents remain; if a delete issued again and again
\* eventually succeeds, the loop ends with the collection empty (or with
\* an error of the scan).
C18_ClearLoop == [][C18_Round]_vars /\ C18_Terminates

(* A collection of MIN_DOCS_PER_COLLECTION documents was emptied by a loop
   in which a delete had failed. *)
C18_Witness ==
    /\ pc = "batch"
    /\ FORCE_UPLOAD
    /\ hist.deleteFailed[Cur]
    /\ hist.gateCount[Cur] = MIN_DOCS_PER_COLLECTION
    /\ deleted = MIN_DOCS_PER_COLLECTION
    /\ docs[Cur] = 0

\* C19: with FORCE_UPLOAD false, a collection that holds at least one and
\* fewer than MIN_DOCS_PER_COLLECTION documents at its gate has the full
\* generated set submitted and nothing deleted, and ends with the documents
\* it held plus the ones inserted; a collection is left alone exactly when
\* its count at the gate has reached the threshold.
C19_BelowThresholdAdds ==
    \A k \in 1..NumCollections :
        LET c == COLLECTIONS[k]
            passed == /\ hist.gateCount[c] >= 0
                      /\ ~hist.escaped
                      /\ cur > k \/ pc \in {"verify", "sample", "exited"}
        IN  (Uploader /\ ~FORCE_UPLOAD) =>
               /\ (hist.gateCount[c] > 0
                      /\ hist.gateCount[c] < MIN_DOCS_PER_COLLECTION) =>
                     /\ ~hist.deleteIssued[c]
                     /\ docs[c] >= hist.gateCount[c]
                     /\ passed => hist.uploaded[c]
                     /\ hist.uploaded[c] =>
                           /\ hist.submitted[c] = GeneratedCount(c)
                           /\ docs[c] = hist.gateCount[c] + hist.returned[c]
               /\ passed =>
                     (hist.gateCount[c] >= MIN_DOCS_PER_COLLECTION
                         <=> (~hist.insertIssued[c] /\ ~hist.uploaded[c]))

(* A run without store errors added the generated set to a collection of
   one document and left a collection at the threshold alone. *)
C19_Witness ==
    /\ Uploader
    /\ ~FORCE_UPLOAD
    /\ pc = "exited"
    /\ \E c, d \in CollectionNames :
          /\ hist.gateCount[c] = 1
          /\ docs[c] = 1 + GeneratedCount(c)
          /\ hist.gateCount[d] = MIN_DOCS_PER_COLLECTION
          /\ docs[d] = MIN_DOCS_PER_COLLECTION

C20_Bounded ==
    /\ hist.batchWrites <= 5 + 1
    /\ hist.batchInserts <= batch_size
    /\ hist.batchStart >= 0 =>
          /\ hist.batchStart % batch_size = 0
          /\ hist.batchStart < Total
          /\ hist.batchInserts <= Total - hist.batchStart
          /\ pc \in {"write", "fallback"} => i = hist.batchStart
          /\ pc = "batch" => i = hist.batchStart + batch_size

C20_InOrder ==
    /\ hist'.batchStart # hist.batchStart =>
          \/ hist.batchStart = -1 /\ hist'.batchStart = 0
          \/ /\ hist.batchStart >= 0
             /\ hist.batchStart + batch_size < GeneratedCount(COLLECTIONS[cur])
             /\ hist'.batchStart = hist.batchStart + batch_size
          \/ /\ hist.batchStart >= 0
             /\ hist.batchStart + batch_size
                   >= GeneratedCount(COLLECTIONS[cur])
             /\ hist'.batchStart = -1
             /\ hist'.uploaded[COLLECTIONS[cur]]
    /\ (hist'.batchStart = hist.batchStart /\ hist.batchStart >= 0) =>
          /\ hist'.batchWrites >= hist.batchWrites
          /\ hist'.batchInserts >= hist.batchInserts
          /\ hist'.batchWrites + hist'.batchInserts
                > hist.batchWrites + hist.batchInserts

C20_Terminates ==
    (pc \in {"batch", "write", "fallback"})
        ~> (pc \notin {"batch", "write", "fallback"})

\* C20: insert_in_batches terminates whatever the store's errors are: the
\* batches are taken once each in index order, a batch receives at most
\* max_retries + 1 bulk writes and at most one insert_one per document, no
\* batch is taken again, and the call returns.
C20_BatchLoopTerminates ==
    [] C20_Bounded /\ [][C20_InOrder]_vars /\ C20_Terminates

(* insert_in_batches returned after every write of every batch had failed
   and the last batch had been written max_retries + 1 times. *)
C20_Witness ==
    /\ hist.uploaded["products"]
    /\ hist.returned["products"] = 0
    /\ hist.submitted["products"] = GeneratedCount("products")
    /\ docs["products"] = hist.gateCount["products"]
    /\ attempt = max_retries + 1

\* C21: a write that raises a rate-limit or another non-bulk error having
\* inserted nothing, the count insert_in_batches keeps and returns is the
\* number of documents the call has added to the collection, never more
\* than len(data); a batch adds at most its own documents, and a batch that
\* succeeds after rate-limit retries adds them exactly once.
C21_ReturnedCount ==
    /\ (~FORCE_UPLOAD /\ pc \in {"batch", "write", "fallback"}) =>
          /\ inserted = docs[Cur] - hist.gateCount[Cur]
          /\ inserted <= hist.submitted[Cur]
          /\ inserted <= GeneratedCount(Cur)
    /\ (pc \in {"batch", "write", "fallback"} /\ hist.batchStart >= 0) =>
          /\ inserted >= hist.insertedAtBatch
          /\ inserted - hist.insertedAtBatch
                <= Min(batch_size, Total - hist.batchStart)
          /\ hist.insertedAtBatch <= hist.batchStart
          /\ hist.batchOutcome = "ok" =>
                /\ inserted - hist.insertedAtBatch
                      = Min(batch_size, Total - hist.batchStart)
                /\ hist.batchWrites = hist.batchThrottles + 1
          /\ hist.batchOutcome \in {"open", "abandoned"}
                /\ hist.batchInserts = 0
                => inserted = hist.insertedAtBatch
    /\ \A c \in CollectionNames :
          (~FORCE_UPLOAD /\ hist.uploaded[c]) =>
              /\ hist.returned[c] = docs[c] - hist.gateCount[c]
              /\ hist.returned[c] >= 0
              /\ hist.returned[c] <= GeneratedCount(c)

(* A batch succeeded at its last attempt, after max_retries rate-limit
   errors, in a call that had lost documents of earlier batches. *)
C21_Witness ==
    /\ hist.batchOutcome = "ok"
    /\ hist.batchThrottles = max_retries
    /\ hist.insertedAtBatch > 0
    /\ hist.insertedAtBatch < hist.batchStart
    /\ inserted = hist.insertedAtBatch + batch_size

----------------------------------------------------------------------------
(* Properties of the generators *)

Abs(x) == IF x < 0 THEN -x ELSE x

\* C11: for every count n, the identifiers of each generator are pairwise
\* unique within their kind, number the documents 1 to n in order, and have
\* the fixed width of the kind: P + 4 digits, C + 5 digits, O + 6 digits,
\* R + 5 digits.
C11_GeneratedIds ==
    \A kind \in Kinds :
        LET list == gen[kind]
            ids  == [k \in 1..Len(list) |-> list[k].id]
        IN  /\ gen.phase = "done" => Len(list) = gen.n[
                  CASE kind = "products"  -> 1
                    [] kind = "customers" -> 2
                    [] kind = "orders"    -> 3
                    [] kind = "reviews"   -> 4]
            /\ Cardinality({ids[k] : k \in 1..Len(ids)}) = Len(ids)
            /\ \A k \in 1..Len(ids) :
                  /\ ids[k].prefix = IdPrefix(kind)
                  /\ DigitsValue(ids[k].digits) = k
                  /\ Len(ids[k].digits) =
                        CASE kind = "products"  -> 4
                          [] kind = "customers" -> 5
                          [] kind = "orders"    -> 6
                          [] kind = "reviews"   -> 5

\* C12: every generated review names a generated order, a product of one of
\* that order's line items and that order's customer; every generated order
\* names a generated customer and only generated products.
C12_References ==
    /\ \A r \in 1..Len(gen.reviews) :
          \E o \in 1..Len(gen.orders) :
             /\ gen.orders[o].order_id = gen.reviews[r].order_id
             /\ gen.orders[o].customer_id = gen.reviews[r].customer_id
             /\ \E m \in 1..Len(gen.orders[o].items) :
                   gen.orders[o].items[m].product_id
                       = gen.reviews[r].product_id
    /\ \A o \in 1..Len(gen.orders) :
          /\ \E c \in 1..Len(gen.customers) :
                gen.customers[c].customer_id = gen.orders[o].customer_id
          /\ \A m \in 1..Len(gen.orders[o].items) :
                \E q \in 1..Len(gen.products) :
                   gen.products[q].product_id
                       = gen.orders[o].items[m].product_id

(* Two reviews of two orders of two customers. *)
C12_Witness ==
    /\ gen.phase = "done"
    /\ Len(gen.reviews) = 2
    /\ gen.reviews[1].order_id # gen.reviews[2].order_id
    /\ gen.reviews[1].customer_id # gen.reviews[2].customer_id

\* C13: in every generated order, total_amount is the sum of the item_total
\* of its line items, each item_total is unit_price times quantity, and tax
\* is 8% of total_amount to the nearest cent (within half a cent).
C13_OrderAmounts ==
    \A o \in 1..Len(gen.orders) :
        LET order == gen.orders[o]
        IN  /\ order.total_amount =
                  SumSeq([m \in 1..Len(order.items) |->
                             order.items[m].item_total])
            /\ \A m \in 1..Len(order.items) :
                  order.items[m].item_total =
                      order.items[m].unit_price * order.items[m].quantity
            /\ Abs(100 * order.tax - 8 * order.total_amount) <= 50

(* An order of two items of different products whose tax is rounded up. *)
C13_Witness ==
    /\ gen.phase = "done"
    /\ \E o \in 1..Len(gen.orders) :
          /\ Len(gen.orders[o].items) = 2
          /\ gen.orders[o].items[1].product_id
                # gen.orders[o].items[2].product_id
          /\ 100 * gen.orders[o].tax > 8 * gen.orders[o].total_amount

Next ==
    \/ UpStart
    \/ ConnectOk
    \/ ConnectFail
    \/ DropOk
    \/ DropFail
    \/ GenerateAndCheck
    \/ GateOk
    \/ GateFail
    \/ ClearFindOk
    \/ ClearFindFail
    \/ ClearDeleteOk
    \/ ClearDeleteFail
    \/ BatchHead
    \/ BulkWriteOk
    \/ BulkWritePartial
    \/ BulkWriteRateLimited
    \/ BulkWriteOtherError
    \/ FallbackInsertOk
    \/ FallbackInsertFail
    \/ VerifyOk
    \/ VerifyFail
    \/ SampleOk
    \/ SampleFail
    \/ Rerun
    \/ CallCached
    \/ CallNoConnection
    \/ CallQueryOk
    \/ CallQueryRaises
    \/ Expire

Spec == Init /\ [][Next]_vars

----------------------------------------------------------------------------
(* The data functions of the dashboard called directly, one call after
   another in any order, as a test of the functions calls them. *)

Direct ==
    /\ proc = "dashboard"
    /\ dpc = "start"
    /\ UNCHANGED <<proc, connString, upState, dpc, page, step>>

DirectCached == \E f \in DataFunctions : CachedOf(f) /\ Direct

DirectNoConnection == \E f \in DataFunctions : NoConnectionOf(f) /\ Direct

DirectQueryOk == \E f \in DataFunctions : QueryOkOf(f) /\ Direct

DirectQueryRaises == \E f \in DataFunctions : QueryRaisesOf(f) /\ Direct

FnInit == Init /\ proc = "dashboard" /\ connString = "set"

FnNext ==
    \/ DirectCached
    \/ DirectNoConnection
    \/ DirectQueryOk
    \/ DirectQueryRaises

FnSpec == FnInit /\ [][FnNext]_vars

----------------------------------------------------------------------------
(* The generators called on their own, lines 190-193: products, customers,
   orders from both, reviews from the orders. *)

runState == <<envVars, dashVars, docs, faults, throttles, pc, exitCode, cur,
              i, attempt, inserted, j, found, deleted, all_success, slept,
              hist>>

GenCall ==
    /\ gen.phase = "idle"
    /\ \E n \in GenCounts :
          gen' = [gen EXCEPT !.phase = "products", !.n = n]
    /\ UNCHANGED runState

GenProducts ==
    /\ gen.phase = "products"
    /\ \E price \in PriceTables(gen.n[1]) :
          gen' = [gen EXCEPT
                    !.phase = "customers",
                    !.products = generate_products(gen.n[1], price)]
    /\ UNCHANGED runState

GenCustomers ==
    /\ gen.phase = "customers"
    /\ gen' = [gen EXCEPT !.phase = "orders",
                          !.customers = generate_customers(gen.n[2])]
    /\ UNCHANGED runState

GenOrders ==
    /\ gen.phase = "orders"
    /\ \E picks \in [1..gen.n[3] ->
                        OrderDraws(Len(gen.customers), Len(gen.products))] :
          gen' = [gen EXCEPT
                    !.phase = "reviews",
                    !.orders = generate_orders(gen.customers, gen.products,
                                               gen.n[3], picks)]
    /\ UNCHANGED runState

(* random.choice(customers) or random.choice(products) of an empty list
   raises IndexError in the first order. *)
GenOrdersRaises ==
    /\ gen.phase = "orders"
    /\ gen.n[3] > 0
    /\ gen.customers = << >> \/ gen.products = << >>
    /\ gen' = [gen EXCEPT !.phase = "raised", !.raised = TRUE]
    /\ UNCHANGED runState

GenReviews ==
    /\ gen.phase = "reviews"
    /\ \E picks \in [1..gen.n[4] -> ReviewDraws(gen.orders)] :
          gen' = [gen EXCEPT
                    !.phase = "done",
                    !.reviews = generate_reviews(gen.orders, gen.n[4],
                                                 picks)]
    /\ UNCHANGED runState

(* random.choice(orders) of an empty list raises IndexError. *)
GenReviewsRaises ==
    /\ gen.phase = "reviews"
    /\ gen.n[4] > 0
    /\ gen.orders = << >>
    /\ gen' = [gen EXCEPT !.phase = "raised", !.raised = TRUE]
    /\ UNCHANGED runState

GenInit ==
    /\ Init
    /\ proc = "uploader"
    /\ connString = "set"
    /\ ~FORCE_UPLOAD
    /\ ~RESET_DATABASE
    /\ docs = Db(0, 0, 0, 0)
    /\ faults = 0

GenNext ==
    \/ GenCall
    \/ GenProducts
    \/ GenCustomers
    \/ GenOrders
    \/ GenOrdersRaises
    \/ GenReviews
    \/ GenReviewsRaises

GenSpec == GenInit /\ [][GenNext]_vars

----------------------------------------------------------------------------
(* The uploader against a store whose errors are not limited, up to the end
   of the block of the first kind.  The run always takes its next step. *)

UnlimitedInit ==
    /\ proc = "uploader"
    /\ connString = "set"
    /\ RESET_DATABASE = FALSE
    /\ faults = Unlimited
    /\ throttles = Unlimited
    /\ Started

ToFirstGate ==
    \/ UpStart
    \/ ConnectOk
    \/ ConnectFail
    \/ GenerateAndCheck
    \/ GateOk
    \/ GateFail

(* clear_collection_safely(db['products']) under FORCE_UPLOAD; a
   delete_many that is issued again and again eventually succeeds. *)
ClearLoop ==
    \/ ClearFindOk
    \/ ClearFindFail
    \/ ClearDeleteOk
    \/ ClearDeleteFail

ClearInit ==
    /\ UnlimitedInit
    /\ FORCE_UPLOAD = TRUE
    /\ docs \in InitialDbs

ClearNext == cur = 1 /\ (ToFirstGate \/ ClearLoop)

ClearSpec ==
    /\ ClearInit
    /\ [][ClearNext]_vars
    /\ WF_vars(ClearNext)
    /\ SF_vars(cur = 1 /\ ClearDeleteOk)

(* insert_in_batches(db['products'], products) on an empty collection. *)
BatchLoop ==
    \/ BatchHead
    \/ BulkWriteOk
    \/ BulkWritePartial
    \/ BulkWriteRateLimited
    \/ BulkWriteOtherError
    \/ FallbackInsertOk
    \/ FallbackInsertFail

BatchInit ==
    /\ UnlimitedInit
    /\ FORCE_UPLOAD = FALSE
    /\ docs = Db(0, 0, 0, 0)

BatchNext == cur = 1 /\ (ToFirstGate \/ BatchLoop)

BatchSpec == BatchInit /\ [][BatchNext]_vars /\ WF_vars(BatchNext)

====
